---- MODULE Spec2Model ----
(***************************************************************************)
(* Model of src/octoprint/comm/protocol/reprap/virtual.py: the virtual     *)
(* RepRap printer.  The host calls write(); the reader thread              *)
(* (_processIncoming) takes lines from the byte-counted rx queue           *)
(* (CharCountingQueue), decodes checksum and line number, dispatches the   *)
(* command and answers on the tx queue; the move worker (_processBuffer)   *)
(* drains the bounded move queue.                                          *)
(*                                                                         *)
(* A line is a record [hasN, n, payload, cs]: the text                     *)
(*     "N<n> <payload>*<c>\n"                                              *)
(* with the N prefix present iff hasN and the "*<c>" suffix iff cs.        *)
(* Payloads and tx lines are the literal strings of the code.              *)
(***************************************************************************)
EXTENDS Integers, Sequences, FiniteSets, TLC

\* ------------------------------------------------------------ bounds
\* rx_buffer and command_buffer of the constructor, chosen small.
RxBuffer == 40
CommandBuffer == 2
\* The host makes at most MaxWrites calls of write().
MaxWrites == 3
\* Producers of the queue specification make at most MaxPuts calls of put().
MaxPuts == 4
\* write() calls of the host in one behaviour of the SD specification
MaxSdWrites == 4

\* ------------------------------------------------------------ program constants
\* "elif self.currentLine == 101": the line count that forces a resend ...
ResendAtLine == 101
\* ... "self._triggerResend(expected=100)".
ForcedResendLine == 100

\* ------------------------------------------------------------ lines
Line(hasN, n, payload, cs) ==
  [hasN |-> hasN, n |-> n, payload |-> payload, cs |-> cs]

Plain(payload) == Line(FALSE, 0, payload, FALSE)
Checksummed(payload) == Line(FALSE, 0, payload, TRUE)
Numbered(n, payload, cs) == Line(TRUE, n, payload, cs)

\* Number of decimal digits of a line number ("%d").
Digits(n) == IF n < 10 THEN 1 ELSE IF n < 100 THEN 2 ELSE IF n < 1000 THEN 3 ELSE 4

\* len(item) of the text of a line: "N<n>", a blank before a non-empty
\* payload, the payload, "*<c>" (one checksum character) and the newline.
LineLen(l) ==
    (IF l.hasN THEN 1 + Digits(l.n) + (IF l.payload = "" THEN 0 ELSE 1) ELSE 0)
  + Len(l.payload)
  + (IF l.cs THEN 2 ELSE 0)
  + 1

\* ------------------------------------------------------------ payloads
MoveG0 == "G0 X10"
DebugDontAnswer == "!!DEBUG:dont_answer"
DebugResendLineno == "!!DEBUG:trigger_resend_lineno"
DebugResendChecksum == "!!DEBUG:trigger_resend_checksum"
DebugSleepAfterM105 == "!!DEBUG:sleep_after M105 1"
DebugSleepAfterNextT0 == "!!DEBUG:sleep_after_next T0 1"
DebugSleepAfterNextM400 == "!!DEBUG:sleep_after_next M400 1"
DebugDropConnection == "!!DEBUG:drop_connection"

\* data.startswith("!!DEBUG:")
IsDebug(p) ==
  p \in {DebugDontAnswer, DebugResendLineno, DebugResendChecksum,
         DebugSleepAfterM105, DebugSleepAfterNextT0, DebugSleepAfterNextM400,
         DebugDropConnection}

\* "M110" in data
ContainsM110(p) == p = "M110"

\* "M112" in data
ContainsM112(p) == p = "M112"

\* A second move, and the unit commands.
MoveFar == "G0 X20"

\* None of _lastX.
NoCoordinate == -1

\* float(re.search("X([0-9.]+)", line).group(1)) of the moves, in tenths.
MoveX(p) ==
  CASE p = MoveG0 -> 100
    [] p = MoveFar -> 200
    [] OTHER -> NoCoordinate

\* "self._lastX *= 2.54" of G20 and "self._lastX /= 2.54" of G21, in tenths.
Rescale(cmd, x) == IF cmd = "G20" THEN (x * 254) \div 100 ELSE (x * 100) \div 254

\* The SD commands the host sends with their arguments.
SelectTestG == "M23 test.g"
WriteTestG == "M28 test.g"
SeekInside == "M26 S6"
SeekBeyond == "M26 S99"

\* "M29" in data
ContainsM29(p) == p = "M29"

\* command_regex "^([GMTF])(\d+)": group(0) of the match, "" when there is none.
Command(p) ==
  CASE p \in {MoveG0, MoveFar} -> "G0"
    [] p \in {"G20", "G21"} -> p
    [] p \in {"M105", "M110", "M400", "T0", "F100", "M24", "M25", "M29"} -> p
    [] p \in {SelectTestG, "M23"} -> "M23"
    [] p \in {WriteTestG, "M28"} -> "M28"
    [] p \in {SeekInside, SeekBeyond, "M26"} -> "M26"
    [] OTHER -> ""

\* Whether data.split(None, 1) has a second element, and whether
\* re.search("S([0-9]+)", data) finds a match.
HasFileArgument(p) == p \in {SelectTestG, WriteTestG}
HasSeekArgument(p) == p \in {SeekInside, SeekBeyond}

\* data.split(None, 1)[1].strip() of M23 and M28: the file name.
FileArgument(p) ==
  CASE p \in {SelectTestG, WriteTestG} -> "test.g"
    [] OTHER -> ""

\* int(re.search("S([0-9]+)", data).group(1)) of M26.
SeekArgument(p) ==
  CASE p = SeekInside -> 6
    [] p = SeekBeyond -> 99
    [] OTHER -> 0

\* str.lower() on the file names in use.
Lower(name) ==
  CASE name \in {"test.g", "TEST.G", "Test.g"} -> "test.g"
    [] OTHER -> name

\* None of _selectedSdFileSize, _selectedSdFilePos and _newSdFilePos.
NoPos == -1

\* The names under _virtualSd and a directory entry: whether the file
\* exists, and its lines (each with its newline).
SdNames == {"test.g"}
NoFile == [exists |-> FALSE, lines |-> <<>>]
File(lines) == [exists |-> TRUE, lines |-> lines]
EmptySd == [n \in SdNames |-> NoFile]

\* os.stat(file).st_size: the bytes of the lines.
RECURSIVE Bytes(_)
Bytes(lines) == IF lines = <<>> THEN 0 ELSE Len(Head(lines)) + Bytes(Tail(lines))

\* ------------------------------------------------------------ state
VARIABLES
  \* constructor arguments
  okBeforeCommandOutput, force_checksums, repetier_resends, ok_with_lineno,
  supportF, supportM112,
  \* rx: CharCountingQueue.queue and CharCountingQueue._size
  incoming, qsize,
  \* tx: entries [s, src, by]: the line s, emitted while the reader worked on
  \* the src-th item it took from rx (0: not by the reader), by the code site by
  outgoing,
  \* move queue: Queue.queue and Queue.unfinished_tasks
  buffered, unfinished_tasks,
  \* line protocol
  currentLine, lastN, dont_answer,
  \* debug sleep registrations: sets of command tokens
  sleepAfter, sleepAfterNext,
  \* RLock _incoming_lock: "free", or the thread that holds it
  incoming_lock,
  \* host thread in write(): pc, the line being written, the last outcome;
  \* the outcome of its last read()
  wpc, wdata, wres, rres,
  \* reader thread: pc, the payload in hand, the pending _triggerResend call,
  \* whether the handler in dispatch has loaded self.buffered for its call
  rpc, rdata, rresend, rcall,
  \* move worker: pc and the move being performed
  bpc, bline,
  \* lifecycle flags: _killed, queues set to None, _debug_drop_connection
  killed, closed, debug_drop_connection,
  \* history: number of write() calls, lines taken from rx in order,
  \* outcomes of the put()/get() calls of the queue specification,
  \* for each line write() has put into rx whether _killed was set by then
  writes, rxlog, qlog, afterKill,
  \* virtual SD: _sdCardReady, _writingToSd, _selectedSdFile ("" for None),
  \* _selectedSdFileSize, _selectedSdFilePos, _newSdFilePos, the event
  \* _sdPrintingSemaphore, and the files of the directory _virtualSd
  sdCardReady, writingToSd, selectedSdFile, selectedSdFileSize,
  selectedSdFilePos, newSdFilePos, sdPrintingSemaphore, sdFiles,
  \* position: _lastX in tenths (NoCoordinate for None), and the value the
  \* reader has read of it inside _gcode_G20 / _gcode_G21
  lastX, rload,
  \* SD printer thread: pc ("none": _sdPrinter is None), the lines of the
  \* file it has open, the offset of its file object, the line it has read,
  \* and the number of tasks that have cleared _sdPrinter and not yet returned
  spc, sdReading, sdOffset, sdLine, sdEnding,
  \* hotend 0: temp[0] and targetTemp[0]
  temp, targetTemp

config == <<okBeforeCommandOutput, force_checksums, repetier_resends,
            ok_with_lineno, supportF, supportM112>>
rxvars == <<incoming, qsize>>
movevars == <<buffered, unfinished_tasks>>
protovars == <<currentLine, lastN, dont_answer>>
sleepvars == <<sleepAfter, sleepAfterNext>>
writer == <<wpc, wdata, wres, writes, rres, afterKill>>
reader == <<rpc, rdata, rresend, rxlog, rcall>>
mover == <<bpc, bline>>
lifecycle == <<killed, closed, debug_drop_connection>>
sdstate == <<sdCardReady, writingToSd, selectedSdFile, selectedSdFileSize,
             selectedSdFilePos, newSdFilePos, sdPrintingSemaphore>>
sdprinter == <<spc, sdReading, sdOffset, sdLine, sdEnding>>
thermovars == <<temp, targetTemp>>
sdvars == <<sdstate, sdFiles, sdprinter>>
posvars == <<lastX, rload>>

vars == <<config, rxvars, outgoing, movevars, protovars, sleepvars,
          incoming_lock, writer, reader, mover, lifecycle, qlog, sdvars, posvars, thermovars>>

\* No _triggerResend call pending.
NoResend == [hasExpected |-> FALSE, expected |-> 0, hasActual |-> FALSE, actual |-> 0]

\* ------------------------------------------------------------ tx
Entry(s, src, by) == [s |-> s, src |-> src, by |-> by]

\* _send: outgoing.put(line), nothing once the queue is torn down.
Send(q, s, src, by) == IF closed THEN q ELSE Append(q, Entry(s, src, by))

\* _sendOk: "ok", or "ok <lastN>" with ok_with_lineno; n is lastN at the call.
OkText(n) == IF ok_with_lineno THEN "ok " \o ToString(n) ELSE "ok"
SendOk(q, n, src) == IF closed THEN q ELSE Send(q, OkText(n), src, "_sendOk")

\* The greeting of the constructor.
Banner == << Entry("start", 0, "__init__"),
             Entry("Marlin: Virtual Marlin!", 0, "__init__"),
             Entry("\\x80", 0, "__init__"),
             Entry("SD card ok", 0, "__init__") >>

\* ------------------------------------------------------------ rx queue
\* The sum of len(item) over a sequence of items.
RECURSIVE SumLen(_)
SumLen(q) == IF q = <<>> THEN 0 ELSE LineLen(Head(q)) + SumLen(Tail(q))

\* Mutant of PutFits: the check of a plain Queue, which ignores the item's length.
PutFitsIgnoringLength(item) == ~(qsize >= RxBuffer)

\* CharCountingQueue.put: the negation of the wait condition
\* "self._qsize() + item_size >= self.maxsize".
PutFits(item) == ~(qsize + LineLen(item) >= RxBuffer)

\* CharCountingQueue._put
QPut(item) ==
  /\ incoming' = Append(incoming, item)
  /\ qsize' = qsize + LineLen(item)

\* Queue.get's wait condition "not self._qsize()" negated.
CanGet == qsize # 0

\* Mutant of QGet: the item is removed and the tracked size is left as it was.
QGetWithoutCount ==
  /\ incoming' = Tail(incoming)
  /\ qsize' = qsize

\* CharCountingQueue._get
QGet ==
  /\ incoming' = Tail(incoming)
  /\ qsize' = qsize - LineLen(Head(incoming))

\* ------------------------------------------------------------ construction
Boot ==
  /\ incoming = <<>> /\ qsize = 0
  /\ outgoing = Banner
  /\ buffered = <<>> /\ unfinished_tasks = 0
  /\ currentLine = 0 /\ lastN = 0 /\ dont_answer = FALSE
  /\ sleepAfter = {} /\ sleepAfterNext = {}
  /\ incoming_lock = "free"
  /\ wpc = "idle" /\ wdata = Plain("") /\ wres = "none" /\ writes = 0
  /\ rres = "none" /\ afterKill = <<>>
  /\ rpc = "get" /\ rdata = "" /\ rresend = NoResend /\ rxlog = <<>>
  /\ rcall = FALSE
  /\ bpc = "get" /\ bline = ""
  /\ killed = FALSE /\ closed = FALSE /\ debug_drop_connection = FALSE
  /\ qlog = <<>>
  /\ sdCardReady = TRUE /\ writingToSd = FALSE /\ selectedSdFile = ""
  /\ selectedSdFileSize = NoPos /\ selectedSdFilePos = NoPos
  /\ newSdFilePos = NoPos /\ sdPrintingSemaphore = FALSE
  /\ spc = "none" /\ sdReading = <<>> /\ sdOffset = 0
  /\ lastX = NoCoordinate /\ rload = NoCoordinate
  /\ sdLine = "" /\ sdEnding = 0
  /\ temp = 0 /\ targetTemp = 0

\* ------------------------------------------------------------ host: write()
\* Mutant of ConnectionDropped: the drop flag is never honoured.
ConnectionNeverDropped == FALSE

\* "if self._debug_drop_connection" of write() and read()
ConnectionDropped == debug_drop_connection

\* write(data), up to the put: the drop flag raises, a closed channel returns,
\* M112 kills (_kill), otherwise the line is put into rx under _incoming_lock:
\* at once when it fits, else the thread waits in put() holding the lock.
HostWrite(l, max) ==
  /\ wpc = "idle"
  /\ writes < max
  /\ incoming_lock = "free"
  /\ writes' = writes + 1
  /\ wdata' = l
  /\ IF ConnectionDropped
       THEN /\ wres' = "SerialTimeoutException"
            /\ UNCHANGED <<wpc, incoming_lock, rxvars, outgoing, killed>>
     ELSE IF closed
       THEN /\ wres' = "returned"
            /\ UNCHANGED <<wpc, incoming_lock, rxvars, outgoing, killed>>
     ELSE IF ContainsM112(l.payload) /\ supportM112
       THEN /\ killed' = TRUE
            /\ outgoing' = Send(outgoing, "echo:EMERGENCY SHUTDOWN DETECTED. KILLED.", 0, "_kill")
            /\ wres' = "returned"
            /\ UNCHANGED <<wpc, incoming_lock, rxvars>>
     ELSE IF PutFits(l)
       THEN /\ QPut(l)
            /\ wres' = "written"
            /\ UNCHANGED <<wpc, incoming_lock, outgoing, killed>>
     ELSE /\ wpc' = "put"
          /\ incoming_lock' = "write"
          /\ wres' = "none"
          /\ UNCHANGED <<rxvars, outgoing, killed>>
  /\ afterKill' = IF Len(incoming') > Len(incoming)
                     THEN Append(afterKill, killed)
                     ELSE afterKill
  /\ UNCHANGED <<config, thermovars, posvars, sdvars, movevars, protovars, sleepvars, reader, mover,
                 closed, debug_drop_connection, qlog, rres>>

\* write(data) within the number of calls of one behaviour.
Write(l) == HostWrite(l, MaxWrites)

\* put() woken with room for the item: _put, then the lock is released.
WritePut ==
  /\ wpc = "put"
  /\ PutFits(wdata)
  /\ QPut(wdata)
  /\ wpc' = "idle" /\ wres' = "written" /\ incoming_lock' = "free"
  /\ afterKill' = Append(afterKill, killed)
  /\ UNCHANGED <<config, thermovars, posvars, sdvars, outgoing, movevars, protovars, sleepvars, wdata, writes,
                 rres, reader, mover, lifecycle, qlog>>

\* put() reaches its deadline (write_timeout) with the queue still too full:
\* Queue.Full, raised to the host as SerialTimeoutException.
WriteTimeout ==
  /\ wpc = "put"
  /\ ~PutFits(wdata)
  /\ wpc' = "idle" /\ wres' = "SerialTimeoutException" /\ incoming_lock' = "free"
  /\ UNCHANGED <<config, thermovars, posvars, sdvars, rxvars, outgoing, movevars, protovars, sleepvars, wdata,
                 writes, rres, afterKill, reader, mover, lifecycle, qlog>>

\* ------------------------------------------------------------ reader
\* _debugTrigger(data) for the commands that end within the call: the new
\* values of dont_answer, sleepAfter, sleepAfterNext and the lines sent.
\* (The two trigger_resend commands call _triggerResend: see ReaderGet.)
DebugOutcome(p, src) ==
  CASE p = DebugDontAnswer ->
         [dont |-> TRUE, after |-> sleepAfter, next |-> sleepAfterNext, out |-> <<>>]
    [] p = DebugSleepAfterM105 ->
         [dont |-> dont_answer, after |-> sleepAfter \cup {"M105"}, next |-> sleepAfterNext,
          out |-> <<Entry("// going to sleep 1 seconds after each M105", src, "_debugTrigger")>>]
    [] p = DebugSleepAfterNextT0 ->
         [dont |-> dont_answer, after |-> sleepAfter, next |-> sleepAfterNext \cup {"T0"},
          out |-> <<Entry("// going to sleep 1 seconds after next T0", src, "_debugTrigger")>>]
    [] p = DebugSleepAfterNextM400 ->
         [dont |-> dont_answer, after |-> sleepAfter, next |-> sleepAfterNext \cup {"M400"},
          out |-> <<Entry("// going to sleep 1 seconds after next M400", src, "_debugTrigger")>>]
    [] OTHER ->
         [dont |-> dont_answer, after |-> sleepAfter, next |-> sleepAfterNext, out |-> <<>>]

\* The lines of q, none once the tx queue is torn down (_send).
Sent(q) == IF closed THEN <<>> ELSE q

\* Mutant of CountChecksum: only numbered lines are counted.
CountChecksumOfNumbered(l) == IF l.cs /\ l.hasN THEN currentLine + 1 ELSE currentLine

\* "if '*' in data: ... self.currentLine += 1": currentLine after the
\* checksum handling of line l.
CountChecksum(l) == IF l.cs THEN currentLine + 1 ELSE currentLine

\* Mutant of MissingChecksum: only unnumbered lines need a checksum.
MissingChecksumUnnumbered(l) == ~l.cs /\ force_checksums /\ ~l.hasN

\* "elif self._force_checksums" after "if '*' in data"
MissingChecksum(l) == ~l.cs /\ force_checksums

\* Mutant of IsLineNumberReset: M110 resets only when its number is in sequence.
IsLineNumberResetInSequence(l) ==
  l.hasN /\ ContainsM110(l.payload) /\ l.n = lastN + 1

\* 'if data.startswith("N") and "M110" in data'
IsLineNumberReset(l) == l.hasN /\ ContainsM110(l.payload)

\* Mutant of LineNumberMismatch: only a gap ahead is a mismatch.
LineNumberAhead(n, expected) == n > expected

\* "linenumber != expected" of the line-number check.
LineNumberMismatch(n, expected) == n # expected

\* Mutant of DebugResend: the injected resend expects the line after lastN.
DebugResendOfNextLine(p, n) ==
  [hasExpected |-> TRUE, expected |-> n + 1,
   hasActual |-> p = DebugResendLineno, actual |-> n + 2]

\* The _triggerResend calls of _debugTrigger, n being lastN:
\* (expected=lastN, actual=lastN+1) for trigger_resend_lineno,
\* (expected=lastN) for trigger_resend_checksum.
DebugResend(p, n) ==
  IF p = DebugResendLineno
    THEN [hasExpected |-> TRUE, expected |-> n, hasActual |-> TRUE, actual |-> n + 1]
    ELSE [hasExpected |-> TRUE, expected |-> n, hasActual |-> FALSE, actual |-> 0]

\* "elif self.currentLine == 101"
ForcedResendDue(line) == line = ResendAtLine

\* The loop head "while self.incoming is not None and not self._killed", as
\* the reader meets it after an iteration: back into incoming.get(), or out.
NextIteration == IF closed \/ killed THEN "exited" ELSE "get"

\* One pass of the loop body of _processIncoming from incoming.get() to the
\* first of: a continue, the call of _triggerResend, the dispatch of the
\* command, an exception.  l is the item taken, src its number.
\* Mutant of SdData: the line is written without its newline.
SdDataWithoutNewline(p) == p

\* data += "\n": what the shortcut writes to the file.
SdData(p) == p \o "\n"

\* The condition of the shortcut for writing to SD.
SdShortcut(p) == writingToSd /\ selectedSdFile # "" /\ ~ContainsM29(p)

\* open(file, "a") and write(data): the file is created when it is missing.
AppendToFile(file, data) ==
  [sdFiles EXCEPT ![file] = File(@.lines \o <<data>>)]

ReaderGet ==
  /\ rpc = "get"
  /\ CanGet
  /\ QGet
  /\ LET l == Head(incoming)
         src == Len(rxlog) + 1
         line1 == CountChecksum(l)
         expected == lastN + 1
     IN
     /\ rxlog' = Append(rxlog, l)
     /\ IF dont_answer
          THEN \* the one-shot suppression: the item is discarded
               /\ dont_answer' = FALSE
               /\ rpc' = NextIteration
               /\ UNCHANGED <<sdFiles, currentLine, lastN, outgoing, sleepvars, rdata, rresend>>
               /\ UNCHANGED debug_drop_connection
        ELSE IF MissingChecksum(l)
          THEN /\ outgoing' = Send(outgoing, "Error: Missing checksum", src, "_processIncoming")
               /\ rpc' = NextIteration
               /\ UNCHANGED <<sdFiles, protovars, sleepvars, rdata, rresend>>
               /\ UNCHANGED debug_drop_connection
        ELSE IF IsLineNumberReset(l)
          THEN /\ lastN' = l.n
               /\ currentLine' = l.n
               /\ outgoing' = SendOk(outgoing, l.n, src)
               /\ rpc' = NextIteration
               /\ UNCHANGED <<sdFiles, dont_answer, sleepvars, rdata, rresend>>
               /\ UNCHANGED debug_drop_connection
        ELSE IF l.hasN /\ LineNumberMismatch(l.n, expected)
          THEN /\ currentLine' = line1
               /\ rpc' = "resend"
               /\ rresend' = [hasExpected |-> FALSE, expected |-> 0,
                              hasActual |-> TRUE, actual |-> l.n]
               /\ UNCHANGED <<sdFiles, lastN, dont_answer, outgoing, sleepvars, rdata, debug_drop_connection>>
        ELSE IF l.hasN /\ ForcedResendDue(line1)
          THEN /\ currentLine' = line1
               /\ rpc' = "resend"
               /\ rresend' = [hasExpected |-> TRUE, expected |-> ForcedResendLine,
                              hasActual |-> FALSE, actual |-> 0]
               /\ UNCHANGED <<sdFiles, lastN, dont_answer, outgoing, sleepvars, rdata, debug_drop_connection>>
        ELSE IF l.hasN /\ l.payload = ""
          THEN \* data.split(None, 1)[1] raises IndexError: the thread ends
               /\ currentLine' = line1
               /\ lastN' = l.n
               /\ rpc' = "dead"
               /\ UNCHANGED <<sdFiles, dont_answer, outgoing, sleepvars, rdata, rresend, debug_drop_connection>>
        ELSE IF SdShortcut(l.payload)
          THEN \* the line goes to the file being written, and is answered
               /\ currentLine' = line1
               /\ lastN' = IF l.hasN THEN l.n ELSE lastN
               /\ sdFiles' = AppendToFile(selectedSdFile, SdData(l.payload))
               /\ outgoing' = SendOk(outgoing, lastN', src)
               /\ rpc' = NextIteration
               /\ UNCHANGED <<dont_answer, sleepvars, rdata, rresend,
                              debug_drop_connection>>
        ELSE IF l.payload = DebugResendLineno
          THEN /\ currentLine' = line1
               /\ lastN' = IF l.hasN THEN l.n ELSE lastN
               /\ rpc' = "resend"
               /\ rresend' = DebugResend(l.payload, lastN')
               /\ UNCHANGED <<sdFiles, dont_answer, outgoing, sleepvars, rdata, debug_drop_connection>>
        ELSE IF l.payload = DebugResendChecksum
          THEN /\ currentLine' = line1
               /\ lastN' = IF l.hasN THEN l.n ELSE lastN
               /\ rpc' = "resend"
               /\ rresend' = DebugResend(l.payload, lastN')
               /\ UNCHANGED <<sdFiles, dont_answer, outgoing, sleepvars, rdata, debug_drop_connection>>
        ELSE IF IsDebug(l.payload)
          THEN /\ currentLine' = line1
               /\ lastN' = IF l.hasN THEN l.n ELSE lastN
               /\ dont_answer' = DebugOutcome(l.payload, src).dont
               /\ sleepAfter' = DebugOutcome(l.payload, src).after
               /\ sleepAfterNext' = DebugOutcome(l.payload, src).next
               /\ outgoing' = outgoing \o Sent(DebugOutcome(l.payload, src).out)
               /\ debug_drop_connection' =
                    (debug_drop_connection \/ l.payload = DebugDropConnection)
               /\ rpc' = NextIteration
               /\ UNCHANGED <<sdFiles, rdata, rresend>>
        ELSE \* the command goes to dispatch, after the ok of ok-before mode
             /\ currentLine' = line1
             /\ lastN' = IF l.hasN THEN l.n ELSE lastN
             /\ outgoing' = IF l.payload # "" /\ okBeforeCommandOutput
                              THEN SendOk(outgoing, lastN', src)
                              ELSE outgoing
             /\ rpc' = "dispatch"
             /\ rdata' = l.payload
             /\ UNCHANGED <<sdFiles, dont_answer, sleepvars, rresend, debug_drop_connection>>
  /\ UNCHANGED <<config, thermovars, posvars, sdstate, sdprinter, movevars, incoming_lock, writer, rcall, mover, killed,
                 closed, qlog>>

\* request_resend of _triggerResend: the request and its ok.
RequestResend(expected, src) ==
  << Entry("Resend:" \o ToString(expected), src, "_triggerResend"),
     Entry("ok", src, "_triggerResend") >>

\* Mutant of ResendRequests: one request whatever repetier_resends is.
ResendRequestsOnce(expected, src) == RequestResend(expected, src)

\* "if self._repetier_resends: request_resend()" then "request_resend()"
ResendRequests(expected, src) ==
  (IF repetier_resends THEN RequestResend(expected, src) ELSE <<>>)
    \o RequestResend(expected, src)

\* _triggerResend(expected, actual), entered once _incoming_lock is free.
ReaderResend ==
  /\ rpc = "resend"
  /\ incoming_lock = "free"
  /\ LET src == Len(rxlog)
         expected == IF rresend.hasExpected THEN rresend.expected ELSE lastN + 1
         error == IF rresend.hasActual
                    THEN "Error: expected line " \o ToString(expected)
                           \o " got " \o ToString(rresend.actual)
                    ELSE "Error: Wrong checksum"
     IN
     /\ lastN' = IF rresend.hasExpected THEN expected - 1 ELSE lastN
     /\ outgoing' = outgoing
                      \o Sent(<<Entry(error, src, "_triggerResend")>>)
                      \o Sent(ResendRequests(expected, src))
  /\ rpc' = NextIteration
  /\ rresend' = NoResend
  /\ UNCHANGED <<config, thermovars, posvars, sdvars, rxvars, movevars, currentLine, dont_answer, sleepvars,
                 incoming_lock, writer, rdata, rxlog, rcall, mover, lifecycle, qlog>>

\* ------------------------------------------------------------ dispatch
\* _processTemperatureQuery, one extruder, the temperatures of the constructor.
TemperatureReport == "T:0.00 /0.00 B:1.00 /1.00 @:64\n"

\* The lines of _selectSdFile(filename).
SelectSdFileOutput(filename, src) ==
  IF ~sdFiles[Lower(filename)].exists
    THEN <<Entry("open failed, File: " \o filename \o ".", src, "handler")>>
    ELSE <<Entry("File opened: " \o filename \o "  Size: "
                   \o ToString(Bytes(sdFiles[Lower(filename)].lines)), src, "handler"),
           Entry("File selected", src, "handler")>>

\* _selectSdFile(filename): an existing file becomes the selected one.
SelectSdFile(filename) ==
  /\ IF sdFiles[Lower(filename)].exists
       THEN /\ selectedSdFile' = Lower(filename)
            /\ selectedSdFileSize' = Bytes(sdFiles[Lower(filename)].lines)
       ELSE UNCHANGED <<selectedSdFile, selectedSdFileSize>>
  /\ UNCHANGED <<sdCardReady, writingToSd, selectedSdFilePos, newSdFilePos,
                 sdPrintingSemaphore, sdFiles, spc>>

\* _startSdPrint(): the printer thread is started unless there is one, and
\* the gate is opened.
StartSdPrint ==
  /\ spc' = IF selectedSdFile # "" /\ spc = "none" THEN "start" ELSE spc
  /\ sdPrintingSemaphore' = TRUE
  /\ UNCHANGED <<sdCardReady, writingToSd, selectedSdFile, selectedSdFileSize,
                 selectedSdFilePos, newSdFilePos, sdFiles>>

\* Mutant of PauseSdPrint: the gate is left as it is.
PauseSdPrintKeepsGate ==
  UNCHANGED <<sdCardReady, writingToSd, selectedSdFile, selectedSdFileSize,
              selectedSdFilePos, newSdFilePos, sdPrintingSemaphore, sdFiles, spc>>

\* _pauseSdPrint()
PauseSdPrint ==
  /\ sdPrintingSemaphore' = FALSE
  /\ UNCHANGED <<sdCardReady, writingToSd, selectedSdFile, selectedSdFileSize,
                 selectedSdFilePos, newSdFilePos, sdFiles, spc>>

\* _setSdPos(pos)
SetSdPos(pos) ==
  /\ newSdFilePos' = pos
  /\ UNCHANGED <<sdCardReady, writingToSd, selectedSdFile, selectedSdFileSize,
                 selectedSdFilePos, sdPrintingSemaphore, sdFiles, spc>>

\* _writeSdFile(filename): an existing file is removed, the name becomes the
\* selected file and the device starts writing to it.
WriteSdFile(filename) ==
  /\ sdFiles' = [sdFiles EXCEPT ![Lower(filename)] = NoFile]
  /\ writingToSd' = TRUE
  /\ selectedSdFile' = Lower(filename)
  /\ UNCHANGED <<sdCardReady, selectedSdFileSize, selectedSdFilePos, newSdFilePos,
                 sdPrintingSemaphore, spc>>

\* _finishSdFile()
FinishSdFile ==
  /\ writingToSd' = FALSE
  /\ selectedSdFile' = ""
  /\ UNCHANGED <<sdCardReady, selectedSdFileSize, selectedSdFilePos, newSdFilePos,
                 sdPrintingSemaphore, sdFiles, spc>>

\* The SD handlers _gcode_M23 .. _gcode_M29: each acts if the card is ready.
SdHandler(cmd, p) ==
  IF ~sdCardReady THEN UNCHANGED <<sdstate, sdFiles, spc>>
  ELSE CASE cmd = "M23" -> SelectSdFile(FileArgument(p))
         [] cmd = "M24" -> StartSdPrint
         [] cmd = "M25" -> PauseSdPrint
         [] cmd = "M26" -> SetSdPos(SeekArgument(p))
         [] cmd = "M28" -> WriteSdFile(FileArgument(p))
         [] cmd = "M29" -> FinishSdFile
         [] OTHER -> UNCHANGED <<sdstate, sdFiles, spc>>

\* The lines the handler of the command sends: _gcode_T, _gcode_F,
\* _gcode_M105 (with the "ok " prefix when oks follow the output).
HandlerOutput(cmd, src) ==
  CASE cmd = "T0" -> <<Entry("Active Extruder: 0", src, "handler")>>
    [] cmd = "F100" -> IF supportF
                         THEN <<Entry("echo:changed F value", src, "handler")>>
                         ELSE <<Entry("Error: Unknown command F", src, "handler")>>
    [] cmd = "M105" -> <<Entry((IF okBeforeCommandOutput THEN "" ELSE "ok ")
                                 \o TemperatureReport, src, "handler")>>
    [] cmd = "M23" /\ sdCardReady -> SelectSdFileOutput(FileArgument(rdata), src)
    [] cmd = "M28" /\ sdCardReady ->
         <<Entry("Writing to file: " \o FileArgument(rdata), src, "handler")>>
    [] OTHER -> <<>>

\* Mutant of Handled: no handler reports the command handled.
HandledNever(cmd) == FALSE

\* Whether the handler returns True, so that the loop continues without the
\* ok that follows command output.
Handled(cmd) == cmd = "M105" \/ (cmd = "F100" /\ ~supportF)

\* Mutant of MoveQueueFull: a queue without maxsize.
MoveQueueUnbounded == FALSE

\* Queue.put on the move queue waits "while self._qsize() == self.maxsize".
MoveQueueFull == Len(buffered) = CommandBuffer

\* Mutant of MovesDone: M400 waits for an empty queue instead of join().
MoveQueueEmpty == buffered = <<>>

\* Queue.join waits "while self.unfinished_tasks".
MovesDone == unfinished_tasks = 0

\* The finally block: the notice of a registered sleep_after / sleep_after_next.
SleepNotice(cmd, src) ==
  IF cmd # "" /\ (cmd \in sleepAfter \/ cmd \in sleepAfterNext)
    THEN <<Entry("// sleeping for 1 seconds", src, "sleep")>>
    ELSE <<>>

\* The ok that follows command output.
OkAfter(p, cmd, src) ==
  IF p # "" /\ ~okBeforeCommandOutput /\ ~Handled(cmd)
    THEN <<Entry(OkText(lastN), src, "_sendOk")>>
    ELSE <<>>

\* Mutant of DispatchOutput: the ok is sent before the handler runs.
DispatchOutputOkFirst(p, cmd, src) ==
  OkAfter(p, cmd, src) \o HandlerOutput(cmd, src) \o SleepNotice(cmd, src)

\* What the dispatch of payload p sends, in order: the handler's lines, the
\* sleep notice of the finally block, the ok after command output.
DispatchOutput(p, cmd, src) ==
  HandlerOutput(cmd, src) \o SleepNotice(cmd, src) \o OkAfter(p, cmd, src)

\* The handler raises: IndexError for M23 and M28 without a file name,
\* AttributeError for M26 without an S field.
HandlerRaises(cmd, p) ==
  /\ sdCardReady
  /\ \/ cmd \in {"M23", "M28"} /\ ~HasFileArgument(p)
     \/ cmd = "M26" /\ ~HasSeekArgument(p)

\* The rest of the loop body when the handler raises: the finally block runs
\* and the exception leaves _processIncoming, which ends the thread.
ReaderDispatchRaises ==
  /\ rpc = "dispatch"
  /\ HandlerRaises(Command(rdata), rdata)
  /\ outgoing' = outgoing \o Sent(SleepNotice(Command(rdata), Len(rxlog)))
  /\ sleepAfterNext' = IF Command(rdata) \notin sleepAfter
                          THEN sleepAfterNext \ {Command(rdata)}
                          ELSE sleepAfterNext
  /\ rpc' = "dead"
  /\ UNCHANGED <<config, thermovars, posvars, sdvars, rxvars, movevars, protovars, sleepAfter,
                 incoming_lock, writer, rdata, rresend, rxlog, rcall, mover,
                 lifecycle, qlog>>

\* The rest of the loop body: the handler (which may block: G0..G3 in
\* buffered.put, M400 in buffered.join), the finally block, the ok after.
ReaderDispatch ==
  /\ rpc = "dispatch"
  /\ ~HandlerRaises(Command(rdata), rdata)
  /\ Command(rdata) \notin {"G20", "G21"}
  /\ LET cmd == Command(rdata)
         src == Len(rxlog)
     IN
     /\ cmd \in {"G0", "M400"} /\ closed => rcall
     /\ cmd = "G0" => ~MoveQueueFull
     /\ cmd = "M400" => MovesDone
     /\ IF cmd = "G0"
          THEN /\ buffered' = Append(buffered, rdata)
               /\ unfinished_tasks' = unfinished_tasks + 1
          ELSE UNCHANGED movevars
     /\ SdHandler(cmd, rdata)
     /\ outgoing' = outgoing \o Sent(DispatchOutput(rdata, cmd, src))
     /\ sleepAfterNext' = IF cmd \notin sleepAfter THEN sleepAfterNext \ {cmd}
                                                   ELSE sleepAfterNext
  /\ rpc' = NextIteration
  /\ rcall' = FALSE
  /\ UNCHANGED <<config, thermovars, posvars, sdReading, sdOffset, sdLine, sdEnding, rxvars, protovars, sleepAfter,
                 incoming_lock, writer, rdata, rresend, rxlog, mover, lifecycle, qlog>>

\* _gcode_G20 / _gcode_G21 up to the read of "self._lastX *= 2.54": the
\* handler has the position in hand.
ReaderRescaleLoad ==
  /\ rpc = "dispatch"
  /\ Command(rdata) \in {"G20", "G21"}
  /\ rpc' = "rescale"
  /\ rload' = lastX
  /\ UNCHANGED <<config, thermovars, lastX, sdvars, rxvars, outgoing, movevars, protovars,
                 sleepvars, incoming_lock, writer, rdata, rresend, rxlog, rcall,
                 mover, lifecycle, qlog>>

\* The store of "self._lastX *= 2.54" (none for a position that was None),
\* and the rest of the loop body: the finally block and the ok after.
ReaderRescaleStore ==
  /\ rpc = "rescale"
  /\ lastX' = IF rload # NoCoordinate THEN Rescale(Command(rdata), rload) ELSE lastX
  /\ rload' = NoCoordinate
  /\ outgoing' = outgoing \o Sent(DispatchOutput(rdata, Command(rdata), Len(rxlog)))
  /\ sleepAfterNext' = IF Command(rdata) \notin sleepAfter
                          THEN sleepAfterNext \ {Command(rdata)}
                          ELSE sleepAfterNext
  /\ rpc' = NextIteration
  /\ UNCHANGED <<config, thermovars, sdvars, rxvars, movevars, protovars, sleepAfter,
                 incoming_lock, writer, rdata, rresend, rxlog, rcall, mover,
                 lifecycle, qlog>>

\* ------------------------------------------------------------ move worker
\* _processBuffer: buffered.get()
MoverGet ==
  /\ bpc = "get"
  /\ buffered # <<>>
  /\ bline' = Head(buffered)
  /\ buffered' = Tail(buffered)
  /\ bpc' = "move"
  /\ lastX' = IF MoveX(Head(buffered)) # NoCoordinate THEN MoveX(Head(buffered))
                                                       ELSE lastX
  /\ UNCHANGED <<config, thermovars, rload, sdvars, rxvars, outgoing, unfinished_tasks, protovars, sleepvars,
                 incoming_lock, writer, reader, lifecycle, qlog>>

\* _processBuffer: _performMove(line) has returned; buffered.task_done(),
\* which raises AttributeError once close() has set self.buffered to None.
MoverDone ==
  /\ bpc = "move"
  /\ IF closed
       THEN bpc' = "dead" /\ UNCHANGED unfinished_tasks
       ELSE bpc' = "get" /\ unfinished_tasks' = unfinished_tasks - 1
  /\ bline' = ""
  /\ UNCHANGED <<config, thermovars, posvars, sdvars, rxvars, outgoing, buffered, protovars, sleepvars,
                 incoming_lock, writer, reader, lifecycle, qlog>>

\* ------------------------------------------------------------ host: read()
\* read(): one line taken from tx.
Read ==
  /\ ~ConnectionDropped
  /\ ~closed
  /\ outgoing # <<>>
  /\ outgoing' = Tail(outgoing)
  /\ rres' = "line"
  /\ UNCHANGED <<config, thermovars, posvars, sdvars, rxvars, movevars, protovars, sleepvars, incoming_lock,
                 wpc, wdata, wres, writes, afterKill, reader, mover, lifecycle,
                 qlog>>

\* read() with the drop flag set: SerialTimeoutException, tx untouched.
ReadDropped ==
  /\ ConnectionDropped
  /\ rres' = "SerialTimeoutException"
  /\ UNCHANGED <<config, thermovars, posvars, sdvars, rxvars, outgoing, movevars, protovars, sleepvars,
                 incoming_lock, wpc, wdata, wres, writes, afterKill, reader,
                 mover, lifecycle, qlog>>

\* read() after close(): self.outgoing is None, so "self.outgoing.get" raises
\* AttributeError, which "except Queue.Empty" does not catch.
ReadClosed ==
  /\ ~ConnectionDropped
  /\ closed
  /\ rres' = "AttributeError"
  /\ UNCHANGED <<config, thermovars, posvars, sdvars, rxvars, outgoing, movevars, protovars, sleepvars,
                 incoming_lock, wpc, wdata, wres, writes, afterKill, reader,
                 mover, lifecycle, qlog>>

\* read() on an empty tx: Queue.Empty after read_timeout, "" is returned.
ReadEmpty ==
  /\ ~ConnectionDropped
  /\ ~closed
  /\ outgoing = <<>>
  /\ rres' = ""
  /\ UNCHANGED <<config, thermovars, posvars, sdvars, rxvars, outgoing, movevars, protovars, sleepvars,
                 incoming_lock, wpc, wdata, wres, writes, afterKill, reader,
                 mover, lifecycle, qlog>>

\* ------------------------------------------------------------ host: close()
\* close(): the three queue attributes are set to None.
Close ==
  /\ wpc = "idle"
  /\ ~closed
  /\ closed' = TRUE
  /\ UNCHANGED <<config, thermovars, posvars, sdvars, rxvars, outgoing, movevars, protovars, sleepvars,
                 incoming_lock, writer, reader, mover, killed,
                 debug_drop_connection, qlog>>

\* ------------------------------------------------------------ workers ending
\* incoming.get(timeout=0.01) raises Queue.Empty, the loop continues and its
\* head finds the queue gone or the printer killed: the reader returns.
ReaderTimeout ==
  /\ rpc = "get"
  /\ ~CanGet
  /\ closed \/ killed
  /\ rpc' = "exited"
  /\ UNCHANGED <<config, thermovars, posvars, sdvars, rxvars, outgoing, movevars, protovars, sleepvars,
                 incoming_lock, writer, rdata, rresend, rxlog, rcall, mover,
                 lifecycle, qlog>>

\* close() between the loop head and "self.incoming.get": AttributeError on
\* None ends the reader thread.
ReaderGetClosed ==
  /\ rpc = "get"
  /\ closed
  /\ rpc' = "dead"
  /\ UNCHANGED <<config, thermovars, posvars, sdvars, rxvars, outgoing, movevars, protovars, sleepvars,
                 incoming_lock, writer, rdata, rresend, rxlog, rcall, mover,
                 lifecycle, qlog>>

\* The handler of a move or of M400 loads self.buffered for its put / join.
ReaderEnterCall ==
  /\ rpc = "dispatch"
  /\ Command(rdata) \in {"G0", "M400"}
  /\ ~rcall
  /\ ~closed
  /\ rcall' = TRUE
  /\ UNCHANGED <<config, thermovars, posvars, sdvars, rxvars, outgoing, movevars, protovars, sleepvars,
                 incoming_lock, writer, rpc, rdata, rresend, rxlog, mover,
                 lifecycle, qlog>>

\* The handler of a move or of M400 finds self.buffered None: AttributeError
\* ends the reader thread.
ReaderCallClosed ==
  /\ rpc = "dispatch"
  /\ Command(rdata) \in {"G0", "M400"}
  /\ ~rcall
  /\ closed
  /\ rpc' = "dead"
  /\ UNCHANGED <<config, thermovars, posvars, sdvars, rxvars, outgoing, movevars, protovars, sleepvars,
                 incoming_lock, writer, rdata, rresend, rxlog, rcall, mover,
                 lifecycle, qlog>>

\* buffered.get(timeout=0.5) raises Queue.Empty, the loop continues and its
\* head finds the queue gone: the move worker returns.
MoverTimeout ==
  /\ bpc = "get"
  /\ buffered = <<>>
  /\ closed
  /\ bpc' = "exited"
  /\ UNCHANGED <<config, thermovars, posvars, sdvars, rxvars, outgoing, movevars, protovars, sleepvars,
                 incoming_lock, writer, reader, bline, lifecycle, qlog>>

\* close() between the loop head and "self.buffered.get": AttributeError on
\* None ends the move worker.
MoverGetClosed ==
  /\ bpc = "get"
  /\ closed
  /\ bpc' = "dead"
  /\ UNCHANGED <<config, thermovars, posvars, sdvars, rxvars, outgoing, movevars, protovars, sleepvars,
                 incoming_lock, writer, reader, bline, lifecycle, qlog>>

\* ------------------------------------------------------------ specifications
\* The host's lines of the line-protocol specification: numbered lines around
\* the initial lastN = 0, a reset to the line before the forced resend and the
\* line that then meets it, and the debug commands.
ProtoLines ==
  { Numbered(n, MoveG0, cs) : n \in {1, 2, ResendAtLine}, cs \in BOOLEAN }
  \cup { Numbered(1, "M110", cs) : cs \in BOOLEAN }
  \cup { Numbered(2, "M110", TRUE), Numbered(ForcedResendLine, "M110", FALSE) }
  \cup { Checksummed(p) : p \in {DebugDontAnswer, DebugResendLineno, DebugResendChecksum} }

InitProto ==
  /\ Boot
  /\ sdFiles = EmptySd
  /\ okBeforeCommandOutput \in BOOLEAN
  /\ force_checksums \in BOOLEAN
  /\ repetier_resends \in BOOLEAN
  /\ ok_with_lineno \in BOOLEAN
  /\ supportF = TRUE /\ supportM112 = TRUE

NextProto ==
  \/ \E l \in ProtoLines : Write(l)
  \/ WritePut
  \/ WriteTimeout
  \/ ReaderGet
  \/ ReaderResend
  \/ ReaderDispatch
  \/ MoverGet
  \/ MoverDone

SpecProto == InitProto /\ [][NextProto]_vars

\* The host's lines of the dispatch specification: unnumbered commands, the
\* empty line, and the debug commands that register a sleep.
DispatchLines ==
  { Plain(p) : p \in {MoveG0, "M105", "M400", "T0", "F100", "",
                      DebugSleepAfterM105, DebugSleepAfterNextT0,
                      DebugSleepAfterNextM400} }

InitDispatch ==
  /\ Boot
  /\ sdFiles = EmptySd
  /\ okBeforeCommandOutput \in BOOLEAN
  /\ force_checksums = FALSE
  /\ repetier_resends = FALSE
  /\ ok_with_lineno = FALSE
  /\ supportF \in BOOLEAN
  /\ supportM112 = TRUE

NextDispatch ==
  \/ \E l \in DispatchLines : Write(l)
  \/ WritePut
  \/ WriteTimeout
  \/ ReaderGet
  \/ ReaderDispatch
  \/ MoverGet
  \/ MoverDone
  \/ Read

SpecDispatch == InitDispatch /\ [][NextDispatch]_vars

\* The host's lines of the lifecycle specification: the emergency stop, the
\* drop of the connection, and commands that answer, enqueue and wait.
LifeLines ==
  { Plain(p) : p \in {"M112", DebugDropConnection, "M105", MoveG0, "M400"} }

InitLife ==
  /\ Boot
  /\ sdFiles = EmptySd
  /\ okBeforeCommandOutput = FALSE
  /\ force_checksums = FALSE
  /\ repetier_resends = FALSE
  /\ ok_with_lineno = FALSE
  /\ supportF = TRUE
  /\ supportM112 \in BOOLEAN

\* The steps of the reader thread and of the move worker.
ReaderStep ==
  \/ ReaderGet
  \/ ReaderTimeout
  \/ ReaderGetClosed
  \/ ReaderEnterCall
  \/ ReaderCallClosed
  \/ ReaderDispatch

MoverStep ==
  \/ MoverGet
  \/ MoverDone
  \/ MoverTimeout
  \/ MoverGetClosed

NextLife ==
  \/ \E l \in LifeLines : Write(l)
  \/ WritePut
  \/ WriteTimeout
  \/ Read
  \/ ReadEmpty
  \/ ReadDropped
  \/ ReadClosed
  \/ Close
  \/ ReaderStep
  \/ MoverStep

SpecLife == InitLife /\ [][NextLife]_vars

\* ------------------------------------------------------------ SD printer
\* f.readline() at offset off of the lines: the offset after the line read.
RECURSIVE LineEnd(_, _, _)
LineEnd(lines, off, start) ==
  IF lines = <<>> THEN start
  ELSE IF off < start + Len(Head(lines)) THEN start + Len(Head(lines))
  ELSE LineEnd(Tail(lines), off, start + Len(Head(lines)))

\* f.seek(self._newSdFilePos): the offset the file object takes.
SeekTarget(pos) == pos

\* The line f.readline() returns at offset off (offsets at line starts).
RECURSIVE LineAt(_, _, _)
LineAt(lines, off, start) ==
  IF lines = <<>> THEN ""
  ELSE IF off < start + Len(Head(lines)) THEN Head(lines)
  ELSE LineAt(Tail(lines), off, start + Len(Head(lines)))

\* The file lines of the SD specifications: a move and a heat-and-wait.
FileMove == "G1 X1\n"
FileHeat == "M109 S20\n"

\* "'M104' in line or 'M109' in line", "M109" in line, and
\* float(re.search('S([0-9]+)', line).group(1)).
IsHotendCommand(line) == line = FileHeat
ContainsM109(line) == line = FileHeat
TargetOf(line) == IF line = FileHeat THEN 20 ELSE 0

\* delta of _waitForHeatup and of _simulateTemps; the degrees of one tick
\* a second after the last ("timeDiff * 10").
TempDelta == 1
HeatPerTick == 10

\* The condition that ends the loop of _waitForHeatup.
WithinDelta == ~(temp < targetTemp - TempDelta \/ temp > targetTemp + TempDelta)

\* _simulateTemps: the temperature moves towards the target, and onto it
\* when the step would cross it.
SimulateTemps ==
  IF temp < targetTemp - TempDelta
    THEN (IF temp + HeatPerTick > targetTemp THEN targetTemp ELSE temp + HeatPerTick)
  ELSE IF temp > targetTemp + TempDelta
    THEN (IF temp - HeatPerTick < targetTemp THEN targetTemp ELSE temp - HeatPerTick)
  ELSE temp

\* _parseHotendCommand: "if 'M109' in line: self._waitForHeatup(...)".
WaitsForHeatup(line) == ContainsM109(line)

\* _sdPrintingWorker up to the first readline: the position is reset and the
\* selected file opened; open() raises when there is none.
SdPrinterOpen ==
  /\ spc = "start"
  /\ selectedSdFilePos' = 0
  /\ IF selectedSdFile = "" \/ ~sdFiles[selectedSdFile].exists
       THEN spc' = "dead" /\ UNCHANGED <<sdReading, sdOffset>>
       ELSE /\ spc' = "loop"
            /\ sdReading' = sdFiles[selectedSdFile].lines
            /\ sdOffset' = 0
  /\ UNCHANGED <<config, thermovars, posvars, rxvars, outgoing, movevars, protovars,
                 sleepvars, incoming_lock, writer, reader, mover, lifecycle, qlog,
                 sdCardReady, writingToSd, selectedSdFile, selectedSdFileSize,
                 newSdFilePos, sdPrintingSemaphore, sdFiles, sdLine, sdEnding>>

\* One readline of the loop: at the end of the file, or killed, the loop
\* ends; otherwise the task applies a requested seek and records f.tell().
SdPrinterLine ==
  /\ spc = "loop"
  /\ IF sdOffset >= Bytes(sdReading) \/ killed
       THEN /\ spc' = "eof"
            /\ UNCHANGED <<newSdFilePos, sdOffset, selectedSdFilePos, sdLine>>
       ELSE /\ sdLine' = LineAt(sdReading, sdOffset, 0)
            /\ sdOffset' = IF newSdFilePos # NoPos
                              THEN SeekTarget(newSdFilePos)
                              ELSE LineEnd(sdReading, sdOffset, 0)
            /\ newSdFilePos' = NoPos
            /\ selectedSdFilePos' = sdOffset'
            /\ spc' = "wait"
  /\ UNCHANGED <<config, thermovars, posvars, rxvars, outgoing, movevars, protovars,
                 sleepvars, incoming_lock, writer, reader, mover, lifecycle, qlog,
                 sdCardReady, writingToSd, selectedSdFile, selectedSdFileSize,
                 sdPrintingSemaphore, sdFiles, sdReading, sdEnding>>

\* _sdPrintingSemaphore.wait() with the gate open, then the line is applied:
\* a hotend command sets the target, M109 enters _waitForHeatup; otherwise
\* the task sleeps its 100 ms and loops.
SdPrinterWait ==
  /\ spc = "wait"
  /\ sdPrintingSemaphore
  /\ targetTemp' = IF IsHotendCommand(sdLine) THEN TargetOf(sdLine) ELSE targetTemp
  /\ spc' = IF IsHotendCommand(sdLine) /\ WaitsForHeatup(sdLine) THEN "heatup" ELSE "loop"
  /\ UNCHANGED <<config, temp, posvars, rxvars, outgoing, movevars, protovars,
                 sleepvars, incoming_lock, writer, reader, mover, lifecycle, qlog,
                 sdstate, sdFiles, sdReading, sdOffset, sdLine, sdEnding>>

\* One round of the loop of _waitForHeatup in the SD printer task: it ends
\* when killed or within delta of the target; otherwise the temperatures are
\* ticked, the temperature is reported and the task sleeps a second.
SdPrinterHeatup ==
  /\ spc = "heatup"
  /\ IF killed \/ WithinDelta
       THEN spc' = "loop" /\ UNCHANGED <<temp, outgoing>>
       ELSE /\ temp' = SimulateTemps
            /\ outgoing' = Send(outgoing, "T:" \o ToString(temp') \o ".00", 0,
                                "_waitForHeatup")
            /\ UNCHANGED spc
  /\ UNCHANGED <<config, targetTemp, posvars, rxvars, movevars, protovars,
                 sleepvars, incoming_lock, writer, reader, mover, lifecycle, qlog,
                 sdstate, sdFiles, sdReading, sdOffset, sdLine, sdEnding>>

\* After the loop: the gate is closed and the position reset,
SdPrinterClear ==
  /\ spc = "eof"
  /\ sdPrintingSemaphore' = FALSE
  /\ selectedSdFilePos' = 0
  /\ spc' = "clear"
  /\ UNCHANGED <<config, thermovars, posvars, rxvars, outgoing, movevars, protovars,
                 sleepvars, incoming_lock, writer, reader, mover, lifecycle, qlog,
                 sdCardReady, writingToSd, selectedSdFile, selectedSdFileSize,
                 newSdFilePos, sdFiles, sdReading, sdOffset, sdLine, sdEnding>>

\* then _sdPrinter is set to None,
SdPrinterUnregister ==
  /\ spc = "clear"
  /\ spc' = "none"
  /\ sdEnding' = sdEnding + 1
  /\ UNCHANGED <<config, thermovars, posvars, rxvars, outgoing, movevars, protovars,
                 sleepvars, incoming_lock, writer, reader, mover, lifecycle, qlog,
                 sdstate, sdFiles, sdReading, sdOffset, sdLine>>

\* then the end of the print is reported and the thread returns.
SdPrinterReport ==
  /\ sdEnding > 0
  /\ sdEnding' = sdEnding - 1
  /\ outgoing' = Send(outgoing, "Done printing file", 0, "_sdPrintingWorker")
  /\ UNCHANGED <<config, thermovars, posvars, rxvars, movevars, protovars,
                 sleepvars, incoming_lock, writer, reader, mover, lifecycle, qlog,
                 sdstate, sdFiles, spc, sdReading, sdOffset, sdLine>>

\* One pass of the reader's loop that finds rx empty: _simulateTemps ticks
\* the temperature.
ReaderIdle ==
  /\ rpc = "get"
  /\ ~CanGet
  /\ ~closed /\ ~killed
  /\ ~WithinDelta
  /\ temp' = SimulateTemps
  /\ UNCHANGED <<config, targetTemp, posvars, sdvars, rxvars, outgoing, movevars,
                 protovars, sleepvars, incoming_lock, writer, reader, mover,
                 lifecycle, qlog>>

\* The host's lines of the SD specification: the write cycle (M28, lines with
\* and without line number, M29) and the print cycle (M23, M24, M25, M26).
SdLines ==
  { Plain(p) : p \in {WriteTestG, MoveG0, "M29", SelectTestG, "M24", "M25",
                      SeekInside, SeekBeyond} }
  \cup { Numbered(1, MoveG0, TRUE) }

\* The directory holds nothing, or test.g with two lines.
InitSd ==
  /\ Boot
  /\ sdFiles \in {EmptySd, [n \in SdNames |-> File(<<FileMove, FileHeat>>)]}
  /\ okBeforeCommandOutput = FALSE
  /\ force_checksums \in BOOLEAN
  /\ repetier_resends = FALSE
  /\ ok_with_lineno = FALSE
  /\ supportF = TRUE
  /\ supportM112 = TRUE

WriteSd(l) == HostWrite(l, MaxSdWrites)

SdPrinterStep ==
  \/ SdPrinterOpen
  \/ SdPrinterLine
  \/ SdPrinterWait
  \/ SdPrinterHeatup
  \/ SdPrinterClear
  \/ SdPrinterUnregister
  \/ SdPrinterReport

NextSd ==
  \/ \E l \in SdLines : WriteSd(l)
  \/ WritePut
  \/ WriteTimeout
  \/ ReaderGet
  \/ ReaderResend
  \/ ReaderDispatch
  \/ MoverGet
  \/ MoverDone
  \/ ReaderIdle
  \/ SdPrinterStep

SpecSd == InitSd /\ [][NextSd]_vars

\* The host's lines of the SD print specification: select, start or resume,
\* pause, seek.  Every line the reader takes is dispatched.
SdPrintLines == { Plain(p) : p \in {SelectTestG, "M24", "M25", SeekInside} }

InitSdPrint ==
  /\ Boot
  /\ sdFiles = [n \in SdNames |-> File(<<FileMove, FileHeat>>)]
  /\ okBeforeCommandOutput = FALSE
  /\ force_checksums = FALSE
  /\ repetier_resends = FALSE
  /\ ok_with_lineno = FALSE
  /\ supportF = TRUE
  /\ supportM112 = TRUE

NextSdPrint ==
  \/ \E l \in SdPrintLines : WriteSd(l)
  \/ WritePut
  \/ WriteTimeout
  \/ ReaderGet
  \/ ReaderDispatch
  \/ ReaderIdle
  \/ SdPrinterStep

SpecSdPrint == InitSdPrint /\ [][NextSdPrint]_vars

\* The host's lines of the malformed-line specification: SD commands without
\* their argument, a line number without a command, and well-formed lines.
MalformedLines ==
  { Plain(p) : p \in {"M23", "M26", "M28", SelectTestG, SeekInside, "M105", MoveG0,
                      DebugSleepAfterNextM400} }
  \cup { Numbered(1, "", FALSE), Numbered(1, MoveG0, FALSE) }

InitMalformed ==
  /\ Boot
  /\ sdFiles = [n \in SdNames |-> File(<<FileMove, FileHeat>>)]
  /\ okBeforeCommandOutput \in BOOLEAN
  /\ force_checksums = FALSE
  /\ repetier_resends = FALSE
  /\ ok_with_lineno = FALSE
  /\ supportF = TRUE
  /\ supportM112 = TRUE

NextMalformed ==
  \/ \E l \in MalformedLines : Write(l)
  \/ ReaderGet
  \/ ReaderResend
  \/ ReaderDispatch
  \/ ReaderDispatchRaises
  \/ MoverGet
  \/ MoverDone

SpecMalformed == InitMalformed /\ [][NextMalformed]_vars

\* The host's lines of the position specification: two moves to different
\* places, the two unit commands, and the wait for the moves.
PositionLines == { Plain(p) : p \in {MoveG0, MoveFar, "G20", "G21", "M400"} }

InitPosition ==
  /\ Boot
  /\ sdFiles = EmptySd
  /\ okBeforeCommandOutput \in BOOLEAN
  /\ force_checksums = FALSE
  /\ repetier_resends = FALSE
  /\ ok_with_lineno = FALSE
  /\ supportF = TRUE
  /\ supportM112 = TRUE

NextPosition ==
  \/ \E l \in PositionLines : Write(l)
  \/ ReaderGet
  \/ ReaderDispatch
  \/ ReaderRescaleLoad
  \/ ReaderRescaleStore
  \/ MoverGet
  \/ MoverDone

SpecPosition == InitPosition /\ [][NextPosition]_vars

\* ------------------------------------------------------------ the queue alone
\* Items of different lengths for the queue specification.
QueueItems ==
  { Plain("M105"), Plain(MoveG0), Numbered(1, MoveG0, TRUE),
    Checksummed(DebugResendChecksum) }

\* Number of put() calls made so far.
PutCalls == Cardinality({i \in 1..Len(qlog) : qlog[i].op # "get"})

\* put(item, block=False): Queue.Full when the item does not fit.
QueuePutNowait(item) ==
  /\ PutCalls < MaxPuts
  /\ IF PutFits(item)
       THEN /\ QPut(item)
            /\ qlog' = Append(qlog, [op |-> "put", item |-> item])
       ELSE /\ UNCHANGED rxvars
            /\ qlog' = Append(qlog, [op |-> "Full", item |-> item])
  /\ UNCHANGED <<config, thermovars, posvars, sdvars, outgoing, movevars, protovars, sleepvars, incoming_lock,
                 writer, reader, mover, lifecycle>>

\* put(item) and put(item, timeout=t) with t >= 0, returning: the caller has
\* waited on not_full until the item fits.
QueuePutWait(item) ==
  /\ PutCalls < MaxPuts
  /\ PutFits(item)
  /\ QPut(item)
  /\ qlog' = Append(qlog, [op |-> "put", item |-> item])
  /\ UNCHANGED <<config, thermovars, posvars, sdvars, outgoing, movevars, protovars, sleepvars, incoming_lock,
                 writer, reader, mover, lifecycle>>

\* put(item, timeout=t) with t >= 0 at its deadline, the item still not fitting.
QueuePutDeadline(item) ==
  /\ PutCalls < MaxPuts
  /\ ~PutFits(item)
  /\ qlog' = Append(qlog, [op |-> "Full", item |-> item])
  /\ UNCHANGED <<config, thermovars, posvars, sdvars, rxvars, outgoing, movevars, protovars, sleepvars, incoming_lock,
                 writer, reader, mover, lifecycle>>

\* put(item, timeout=t) with t < 0: ValueError, whatever the queue holds.
QueuePutNegative(item) ==
  /\ PutCalls < MaxPuts
  /\ qlog' = Append(qlog, [op |-> "ValueError", item |-> item])
  /\ UNCHANGED <<config, thermovars, posvars, sdvars, rxvars, outgoing, movevars, protovars, sleepvars, incoming_lock,
                 writer, reader, mover, lifecycle>>

\* get(): the oldest item.
QueueGet ==
  /\ CanGet
  /\ QGet
  /\ qlog' = Append(qlog, [op |-> "get", item |-> Head(incoming)])
  /\ UNCHANGED <<config, thermovars, posvars, sdvars, outgoing, movevars, protovars, sleepvars, incoming_lock,
                 writer, reader, mover, lifecycle>>

InitQueue ==
  /\ Boot
  /\ sdFiles = EmptySd
  /\ okBeforeCommandOutput = FALSE
  /\ force_checksums = FALSE
  /\ repetier_resends = FALSE
  /\ ok_with_lineno = FALSE
  /\ supportF = TRUE
  /\ supportM112 = TRUE

NextQueue ==
  \/ \E item \in QueueItems : QueuePutNowait(item)
  \/ \E item \in QueueItems : QueuePutWait(item)
  \/ \E item \in QueueItems : QueuePutDeadline(item)
  \/ \E item \in QueueItems : QueuePutNegative(item)
  \/ QueueGet

SpecQueue == InitQueue /\ [][NextQueue]_vars

\* ============================================================ claims
\* What one step appended to tx, as texts; the reader never removes from tx.
Emitted == SubSeq(outgoing', Len(outgoing) + 1, Len(outgoing'))
EmittedTexts == [i \in 1..Len(Emitted) |-> Emitted[i].s]
OnlyAppends == /\ Len(outgoing') >= Len(outgoing)
               /\ SubSeq(outgoing', 1, Len(outgoing)) = outgoing

\* The reader takes the oldest item of rx in this step.
Took == rpc = "get" /\ Len(rxlog') = Len(rxlog) + 1
Taken == Head(incoming)

\* The item taken gets as far as the line-number handling: it is neither
\* discarded by dont_answer nor rejected for its missing checksum.
ReachesLineNumbering(l) == ~dont_answer /\ (l.cs \/ ~force_checksums)

\* currentLine once the checksum of the item taken is stripped.
LineAfterChecksum(l) == IF l.cs THEN currentLine + 1 ELSE currentLine

\* One ok of _sendOk if c holds, nothing otherwise.
OkIf(c, n) == IF c THEN <<OkText(n)>> ELSE <<>>

\* The items of the queue log with the given outcome, in order.
LogItems(op) ==
  LET sel == SelectSeq(qlog, LAMBDA e : e.op = op)
  IN [i \in 1..Len(sel) |-> sel[i].item]

\* ------------------------------------------------------------ C5
\* C5: the characters held in rx never exceed the rx capacity, and a put of
\* any kind completes only when the tracked size plus the length of the new
\* item is strictly less than the capacity.
C5_RxWithinCapacity ==
  /\ [](SumLen(incoming) <= RxBuffer)
  /\ [][Len(incoming') > Len(incoming)
          => qsize + LineLen(incoming'[Len(incoming')]) < RxBuffer]_vars

\* rx is as full as put allows, and a put has been refused.
C5_Witness ==
  /\ SumLen(incoming) = RxBuffer - 1
  /\ \E i \in 1..Len(qlog) : qlog[i].op = "Full"

\* ------------------------------------------------------------ C6
\* C6: over every sequence of puts and gets, failed puts included, the tracked
\* size is the sum of the lengths of the queued items, and the items got are,
\* in order, the oldest items put.
C6_SizeTracksItemsFifo ==
  /\ qsize = SumLen(incoming)
  /\ LogItems("get") \o incoming = LogItems("put")

\* Puts have failed both ways, an item has been got and an item is queued.
C6_Witness ==
  /\ \E i \in 1..Len(qlog) : qlog[i].op = "Full"
  /\ \E i \in 1..Len(qlog) : qlog[i].op = "ValueError"
  /\ \E i \in 1..Len(qlog) : qlog[i].op = "get"
  /\ Len(incoming) >= 1

\* ------------------------------------------------------------ C1
\* The reader takes a numbered line without M110 whose number is not lastN + 1.
MismatchTaken ==
  /\ Took
  /\ Taken.hasN /\ ~ContainsM110(Taken.payload)
  /\ ReachesLineNumbering(Taken)
  /\ Taken.n # lastN + 1

\* The reader takes a numbered line without M110 whose number is lastN + 1.
InSequenceTaken ==
  /\ Took
  /\ Taken.hasN /\ ~ContainsM110(Taken.payload)
  /\ ReachesLineNumbering(Taken)
  /\ Taken.n = lastN + 1

\* The reader leaves _triggerResend(actual=k), the call of a mismatch.
MismatchResendDone ==
  rpc = "resend" /\ rresend.hasActual /\ ~rresend.hasExpected /\ rpc' # "resend"

\* The reader finishes the dispatch of a move.
MoveAnswered == rpc = "dispatch" /\ Command(rdata) = "G0" /\ rpc' # "dispatch"

\* The three lines of the claim, for the resend the reader is in.
MismatchLines ==
  << "Error: expected line " \o ToString(lastN + 1) \o " got " \o ToString(rresend.actual),
     "Resend:" \o ToString(lastN + 1),
     "ok" >>

\* A mismatch leaves lastN alone, sends nothing before the resend and
\* dispatches nothing.
MismatchNotDispatched ==
  MismatchTaken =>
    /\ rpc' = "resend" /\ rresend'.hasActual /\ rresend'.actual = Taken.n
    /\ lastN' = lastN
    /\ outgoing' = outgoing
    /\ UNCHANGED <<movevars, rdata>>

\* C1 as claimed: a mismatching numbered line puts exactly the error, the
\* resend request and one ok on tx, keeps lastN and is not dispatched; a line
\* numbered lastN + 1 is then accepted and, being a move, answered with one ok
\* (on acceptance when oks come before command output, after the dispatch
\* otherwise).
C1_AsClaimed ==
  [][ /\ MismatchNotDispatched
      /\ MismatchResendDone =>
           /\ OnlyAppends /\ EmittedTexts = MismatchLines
           /\ lastN' = lastN /\ rpc' = "get"
           /\ UNCHANGED movevars
      /\ InSequenceTaken =>
           /\ lastN' = Taken.n
           /\ rpc' # "resend"
           /\ Taken.payload = MoveG0 =>
                 /\ rpc' = "dispatch" /\ rdata' = MoveG0
                 /\ OnlyAppends /\ EmittedTexts = OkIf(okBeforeCommandOutput, lastN')
      /\ MoveAnswered =>
           OnlyAppends /\ EmittedTexts = OkIf(~okBeforeCommandOutput, lastN)
    ]_vars

\* C1 (amended): as claimed, but with repetier_resends the resend request and
\* its ok are sent twice, and the line numbered lastN + 1 is accepted unless
\* its line count is 101, when _triggerResend(expected=100) is called instead.
C1_ResendOnMismatch ==
  [][ /\ MismatchNotDispatched
      /\ MismatchResendDone =>
           /\ OnlyAppends
           /\ EmittedTexts = IF repetier_resends
                               THEN MismatchLines \o SubSeq(MismatchLines, 2, 3)
                               ELSE MismatchLines
           /\ lastN' = lastN /\ rpc' = "get"
           /\ UNCHANGED movevars
      /\ InSequenceTaken =>
           IF LineAfterChecksum(Taken) = ResendAtLine
             THEN /\ lastN' = lastN /\ rpc' = "resend"
                  /\ rresend'.hasExpected /\ rresend'.expected = ForcedResendLine
             ELSE /\ lastN' = Taken.n
                  /\ rpc' # "resend"
                  /\ Taken.payload = MoveG0 =>
                       /\ rpc' = "dispatch" /\ rdata' = MoveG0
                       /\ OnlyAppends
                       /\ EmittedTexts = OkIf(okBeforeCommandOutput, lastN')
      /\ MoveAnswered =>
           OnlyAppends /\ EmittedTexts = OkIf(~okBeforeCommandOutput, lastN)
    ]_vars

\* "N2 ..." met lastN = 0 and was answered with the error, the resend request
\* and ok; "N1 G0 X10" followed, was accepted and answered with ok.
C1_Witness ==
  /\ lastN = 1
  /\ \E i, j \in 1..Len(rxlog) :
       /\ i < j
       /\ rxlog[i].hasN /\ rxlog[i].n = 2 /\ rxlog[i].payload = MoveG0
       /\ rxlog[j].hasN /\ rxlog[j].n = 1 /\ rxlog[j].payload = MoveG0
       /\ \E k \in 1..(Len(outgoing) - 2) :
            /\ outgoing[k].src = i
            /\ outgoing[k].s = "Error: expected line 1 got 2"
            /\ outgoing[k + 1].s = "Resend:1"
            /\ outgoing[k + 2].s = "ok"
            /\ (k + 3 <= Len(outgoing) => outgoing[k + 3].src # i)
       /\ \E m \in 1..Len(outgoing) :
            outgoing[m].src = j /\ outgoing[m].by = "_sendOk"
  /\ Len(buffered) + (IF bpc = "move" THEN 1 ELSE 0) = 1

\* ------------------------------------------------------------ C2
\* The reader takes a line "N<k> ... M110 ..." that reaches the line-number
\* handling.
M110Taken ==
  /\ Took
  /\ Taken.hasN /\ ContainsM110(Taken.payload)
  /\ ReachesLineNumbering(Taken)

\* C2: a line that begins with N<k> and contains M110 is accepted whatever k
\* and lastN are: once the reader has processed it (the line has reached the
\* line-number handling) lastN = k and currentLine = k, exactly one ok has been
\* sent, no resend is requested and the line is not dispatched.
C2_M110ResetsLineNumber ==
  [][ M110Taken =>
        /\ lastN' = Taken.n /\ currentLine' = Taken.n
        /\ OnlyAppends /\ EmittedTexts = <<OkText(Taken.n)>>
        /\ rpc' = "get" /\ rresend' = NoResend
        /\ UNCHANGED <<movevars, sleepvars, rdata>>
    ]_vars

\* "N100 M110" met lastN = 0 and currentLine = 0: both are 100, one ok is
\* on tx after the greeting and the reader is back at incoming.get().
C2_Witness ==
  /\ rxlog = <<Numbered(ForcedResendLine, "M110", FALSE)>>
  /\ lastN = ForcedResendLine /\ currentLine = ForcedResendLine
  /\ Len(outgoing) = Len(Banner) + 1
  /\ outgoing[Len(outgoing)] = Entry(OkText(ForcedResendLine), 1, "_sendOk")
  /\ rpc = "get"

\* ------------------------------------------------------------ C9
\* The reader takes a line without "*" while force_checksums is set.
UnchecksummedTaken == Took /\ force_checksums /\ ~Taken.cs

\* C9 as claimed: with force_checksums set, every line without "*" taken by
\* the reader puts "Error: Missing checksum" and nothing else on tx, and is
\* not dispatched: currentLine, lastN, the move queue and the sleep
\* registrations stay as they are.
C9_AsClaimed ==
  [][ UnchecksummedTaken =>
        /\ OnlyAppends /\ EmittedTexts = <<"Error: Missing checksum">>
        /\ rpc' = "get" /\ rresend' = NoResend
        /\ UNCHANGED <<currentLine, lastN, movevars, sleepvars, rdata>>
    ]_vars

\* C9 (amended): as claimed unless a dont_answer is pending, when the line is
\* discarded with no output at all and the pending dont_answer is consumed.
C9_MissingChecksum ==
  [][ UnchecksummedTaken =>
        /\ OnlyAppends
        /\ IF dont_answer
             THEN EmittedTexts = <<>> /\ dont_answer' = FALSE
             ELSE EmittedTexts = <<"Error: Missing checksum">> /\ UNCHANGED dont_answer
        /\ rpc' = "get" /\ rresend' = NoResend
        /\ UNCHANGED <<currentLine, lastN, movevars, sleepvars, rdata>>
    ]_vars

\* "N1 G0 X10" without checksum was answered with the error alone: nothing
\* was accepted, nothing enqueued.
C9_Witness ==
  /\ force_checksums
  /\ rxlog = <<Numbered(1, MoveG0, FALSE)>>
  /\ Len(outgoing) = Len(Banner) + 1
  /\ outgoing[Len(outgoing)].s = "Error: Missing checksum"
  /\ lastN = 0 /\ currentLine = 0
  /\ buffered = <<>> /\ unfinished_tasks = 0
  /\ rpc = "get"

\* ------------------------------------------------------------ C10
\* The reader takes an in-sequence numbered line with the line count at 101.
ForcedResendTaken == InSequenceTaken /\ LineAfterChecksum(Taken) = ResendAtLine

\* The reader takes one of the two debug commands that inject a resend.
DebugResendTaken ==
  /\ Took
  /\ ReachesLineNumbering(Taken)
  /\ ~Taken.hasN
  /\ Taken.payload \in {DebugResendLineno, DebugResendChecksum}

\* The reader leaves _triggerResend.
ResendDone == rpc = "resend" /\ rpc' # "resend"

\* The expected line of the _triggerResend call the reader is in.
ResendExpected == IF rresend.hasExpected THEN rresend.expected ELSE lastN + 1

\* "Resend:<expected>" followed by "ok".
ResendPair == << "Resend:" \o ToString(ResendExpected), "ok" >>

\* C10: every resend (line-number mismatch, the forced resend at line count
\* 101, the debug-injected resends) goes through _triggerResend, which after
\* its error line puts "Resend:<expected>" immediately followed by "ok" on tx:
\* exactly twice with repetier_resends, exactly once without.
C10_ResendPairs ==
  [][ /\ (MismatchTaken \/ ForcedResendTaken \/ DebugResendTaken) =>
           rpc' = "resend" /\ outgoing' = outgoing
      /\ ResendDone =>
           /\ OnlyAppends
           /\ Len(EmittedTexts) >= 1
           /\ EmittedTexts[1] \notin {ResendPair[1], ResendPair[2]}
           /\ Tail(EmittedTexts) = IF repetier_resends
                                     THEN ResendPair \o ResendPair
                                     ELSE ResendPair
    ]_vars

\* With repetier_resends: the forced resend at line count 101 has put its two
\* pairs on tx, and a debug-injected resend after it its two pairs.
C10_Witness ==
  /\ repetier_resends
  /\ \E k \in 1..(Len(outgoing) - 4) :
       /\ outgoing[k].s = "Error: Wrong checksum"
       /\ rxlog[outgoing[k].src] = Numbered(ResendAtLine, MoveG0, TRUE)
       /\ [i \in 1..4 |-> outgoing[k + i].s] = <<"Resend:100", "ok", "Resend:100", "ok">>
  /\ \E k \in 1..(Len(outgoing) - 4) :
       /\ outgoing[k].s = "Error: expected line 99 got 100"
       /\ rxlog[outgoing[k].src].payload = DebugResendLineno
       /\ [i \in 1..4 |-> outgoing[k + i].s] = <<"Resend:99", "ok", "Resend:99", "ok">>
       /\ k + 4 = Len(outgoing)

\* ------------------------------------------------------------ dispatch claims
\* The reader takes a non-empty command line that goes to dispatch.
CommandTaken ==
  /\ Took
  /\ ReachesLineNumbering(Taken)
  /\ ~Taken.hasN
  /\ ~IsDebug(Taken.payload)
  /\ Taken.payload # ""

\* The reader finishes the dispatch of a non-empty command line.
DispatchDone == rpc = "dispatch" /\ rpc' = "get" /\ rdata # ""

\* The positions in what the step sent that hold an ok of _sendOk.
EmittedOks == {i \in 1..Len(Emitted) : Emitted[i].by = "_sendOk"}

\* The report of M105 as the mode sends it.
M105Report == (IF okBeforeCommandOutput THEN "" ELSE "ok ") \o TemperatureReport

\* An acknowledgement: the ok of _sendOk, or the report that carries the ok.
IsAck(e) == e.by = "_sendOk" \/ e.s = "ok " \o TemperatureReport

\* The acknowledgements on tx are in the order their commands left rx.
AcksInOrder ==
  \A i, j \in 1..Len(outgoing) :
    i < j /\ IsAck(outgoing[i]) /\ IsAck(outgoing[j]) =>
      outgoing[i].src < outgoing[j].src

\* The notice of the sleep registered for the command in dispatch, if any.
NoticeIfRegistered ==
  IF Command(rdata) \in sleepAfter \cup sleepAfterNext
    THEN <<"// sleeping for 1 seconds">>
    ELSE <<>>

\* ------------------------------------------------------------ C3
\* C3 as claimed: every non-empty command line that reaches dispatch is
\* acknowledged where the mode says: when oks come before command output, by
\* an ok sent as the line is accepted, the dispatch sending none; otherwise by
\* the last line the dispatch sends, after the handler's lines and the
\* "// sleeping" notice; and the acknowledgements of successive commands are
\* on tx in the order the commands left rx.
C3_AsClaimed ==
  /\ []AcksInOrder
  /\ [][ /\ CommandTaken =>
              OnlyAppends /\ EmittedTexts = OkIf(okBeforeCommandOutput, lastN')
         /\ DispatchDone =>
              /\ OnlyAppends
              /\ IF okBeforeCommandOutput
                   THEN \A i \in 1..Len(Emitted) : ~IsAck(Emitted[i])
                   ELSE /\ Emitted # <<>>
                        /\ \A i \in 1..Len(Emitted) :
                             IsAck(Emitted[i]) <=> i = Len(Emitted)
       ]_vars

\* C3 (amended): as claimed for the commands whose handler does not report
\* them handled.  A command whose handler reports it handled (M105, an F
\* without F support) gets no ok after its output: when oks follow command
\* output the dispatch sends no ok of its own for it.
C3_OkPosition ==
  /\ []AcksInOrder
  /\ [][ /\ CommandTaken =>
              OnlyAppends /\ EmittedTexts = OkIf(okBeforeCommandOutput, lastN')
         /\ DispatchDone =>
              /\ OnlyAppends
              /\ EmittedOks =
                   IF /\ ~okBeforeCommandOutput
                      /\ Command(rdata) # "M105"
                      /\ ~(Command(rdata) = "F100" /\ ~supportF)
                     THEN {Len(Emitted)}
                     ELSE {}
       ]_vars

\* Oks after command output: T0 with a sleep registered was dispatched, and
\* tx holds the handler's line, the notice and then the ok.
C3_Witness ==
  /\ ~okBeforeCommandOutput
  /\ \E k \in 1..(Len(outgoing) - 2) :
       /\ outgoing[k] = Entry("Active Extruder: 0", outgoing[k].src, "handler")
       /\ outgoing[k + 1] = Entry("// sleeping for 1 seconds", outgoing[k].src, "sleep")
       /\ outgoing[k + 2] = Entry("ok", outgoing[k].src, "_sendOk")
       /\ rxlog[outgoing[k].src].payload = "T0"

\* ------------------------------------------------------------ C4
M105Taken == CommandTaken /\ Taken.payload = "M105"
M105Done == DispatchDone /\ rdata = "M105"

\* C4 as claimed: M105 is acknowledged exactly once.  When oks follow command
\* output, all that M105 puts on tx is the temperature report prefixed with
\* "ok "; when oks come first, one ok as the line is accepted and then the
\* report without prefix, and nothing else.
C4_AsClaimed ==
  [][ /\ M105Taken =>
           OnlyAppends /\ EmittedTexts = OkIf(okBeforeCommandOutput, lastN')
      /\ M105Done =>
           OnlyAppends /\ EmittedTexts = <<M105Report>>
    ]_vars

\* C4 (amended): as claimed, except that with a sleep registered for M105 the
\* notice "// sleeping for <n> seconds" follows the report.
C4_M105SingleAck ==
  [][ /\ M105Taken =>
           OnlyAppends /\ EmittedTexts = OkIf(okBeforeCommandOutput, lastN')
      /\ M105Done =>
           OnlyAppends /\ EmittedTexts = <<M105Report>> \o NoticeIfRegistered
    ]_vars

\* Oks after command output: M105 was dispatched and the reader is back at
\* incoming.get(); the last line on tx is its report with the "ok " prefix.
C4_Witness ==
  /\ ~okBeforeCommandOutput
  /\ rpc = "get"
  /\ rxlog # <<>> /\ rxlog[Len(rxlog)].payload = "M105"
  /\ outgoing # <<>>
  /\ outgoing[Len(outgoing)] = Entry("ok " \o TemperatureReport, Len(rxlog), "handler")

\* ------------------------------------------------------------ C7
\* The reader is in the dispatch of a move with the move queue full.
MoveBlocked == rpc = "dispatch" /\ Command(rdata) = "G0" /\ Len(buffered) = CommandBuffer

\* C7: the move queue never holds more than command_buffer moves; while the
\* reader is in the dispatch of a move with the queue holding command_buffer
\* moves it stays there, takes nothing from rx and sends nothing, and the only
\* step that shortens the queue is the move worker's get; a move is enqueued
\* only with room in the queue.
C7_MoveQueueBounded ==
  /\ [](Len(buffered) <= CommandBuffer)
  /\ [][ /\ MoveBlocked =>
              /\ rpc' = "dispatch" /\ rdata' = rdata /\ rxlog' = rxlog
              /\ Len(outgoing') <= Len(outgoing)
              /\ Len(buffered') <= Len(buffered)
              /\ Len(buffered') < Len(buffered) => bpc = "get" /\ bpc' = "move"
         /\ MoveAnswered =>
              /\ Len(buffered) < CommandBuffer
              /\ buffered' = Append(buffered, rdata)
       ]_vars

\* Oks after command output: the reader waits in the dispatch of a third move
\* with the queue full, the ok of that move not sent.
C7_Witness ==
  /\ MoveBlocked
  /\ ~okBeforeCommandOutput
  /\ Len(rxlog) = CommandBuffer + 1
  /\ \A i \in 1..Len(outgoing) : outgoing[i].src # Len(rxlog)

\* ------------------------------------------------------------ C8
M400Taken == CommandTaken /\ Taken.payload = "M400"
M400Done == DispatchDone /\ rdata = "M400"

\* A move is still queued or still being performed.
MovesPending == buffered # <<>> \/ bpc = "move"

\* While moves are pending the reader stays in the dispatch of M400, takes
\* nothing from rx and sends nothing.
M400Blocks ==
  rpc = "dispatch" /\ rdata = "M400" /\ MovesPending =>
    /\ rpc' = "dispatch" /\ rdata' = rdata /\ rxlog' = rxlog
    /\ Len(outgoing') <= Len(outgoing)

\* C8 as claimed: M400 keeps the reader until no move is queued or being
\* performed, and the ok for M400 is never put on tx while one is.
C8_AsClaimed ==
  [][ /\ M400Blocks
      /\ (M400Taken \/ M400Done) /\ EmittedOks # {} => ~MovesPending
    ]_vars

\* C8 (amended): M400 keeps the reader until no move is queued or being
\* performed; when oks follow command output the ok for M400 is sent only
\* then, but when oks come before command output it is sent as M400 is
\* accepted, whatever moves are pending.
C8_M400WaitsForMoves ==
  [][ /\ M400Blocks
      /\ M400Taken =>
           /\ OnlyAppends /\ EmittedTexts = OkIf(okBeforeCommandOutput, lastN')
           /\ rpc' = "dispatch" /\ rdata' = "M400"
      /\ M400Done =>
           /\ ~MovesPending
           /\ OnlyAppends
           /\ EmittedTexts = NoticeIfRegistered \o OkIf(~okBeforeCommandOutput, lastN)
    ]_vars

\* Oks after command output: a move and then M400 were taken, the move is
\* done and the ok for M400 is on tx.
C8_Witness ==
  /\ ~okBeforeCommandOutput
  /\ ~MovesPending
  /\ \E i, j \in 1..Len(rxlog) :
       /\ i < j
       /\ rxlog[i].payload = MoveG0
       /\ rxlog[j].payload = "M400"
       /\ \E m \in 1..Len(outgoing) :
            outgoing[m] = Entry("ok", j, "_sendOk")

\* ------------------------------------------------------------ C11
\* The reader takes an unnumbered "!!DEBUG:trigger_resend_lineno".
DebugLinenoTaken ==
  /\ Took
  /\ ReachesLineNumbering(Taken)
  /\ ~Taken.hasN
  /\ Taken.payload = DebugResendLineno

\* The reader leaves the _triggerResend call of trigger_resend_lineno.
DebugLinenoResendDone ==
  rpc = "resend" /\ rresend.hasExpected /\ rresend.hasActual /\ rpc' # "resend"

\* The reader accepts a numbered line without M110: it goes on to dispatch.
NumberedLineAccepted ==
  /\ Took
  /\ Taken.hasN /\ ~ContainsM110(Taken.payload)
  /\ rpc' = "dispatch"

\* C11: "!!DEBUG:trigger_resend_lineno" processed with lastN = L sends nothing
\* before its resend; the next lines on tx are then
\* "Error: expected line L got L+1", "Resend:L" and "ok"; lastN becomes L - 1;
\* and a numbered line without M110 is accepted only with the number
\* lastN + 1, which is L after this resend.
C11_DebugResendLineno ==
  [][ /\ DebugLinenoTaken =>
           /\ rpc' = "resend" /\ outgoing' = outgoing /\ lastN' = lastN
           /\ rresend'.hasExpected /\ rresend'.expected = lastN
           /\ rresend'.hasActual /\ rresend'.actual = lastN + 1
      /\ DebugLinenoResendDone =>
           /\ rresend.expected = lastN
           /\ OnlyAppends
           /\ Len(EmittedTexts) >= 3
           /\ SubSeq(EmittedTexts, 1, 3) =
                << "Error: expected line " \o ToString(lastN)
                     \o " got " \o ToString(lastN + 1),
                   "Resend:" \o ToString(lastN),
                   "ok" >>
           /\ lastN' = lastN - 1
           /\ rpc' = "get"
      /\ NumberedLineAccepted => Taken.n = lastN + 1 /\ lastN' = Taken.n
    ]_vars

\* "N1 G0 X10", then the debug command with lastN = 1, then "N1 G0 X10"
\* again: the three lines are on tx, the second N1 was accepted and both
\* moves are enqueued.
C11_Witness ==
  /\ Len(rxlog) = 3
  /\ rxlog[1].hasN /\ rxlog[1].n = 1 /\ rxlog[1].payload = MoveG0
  /\ rxlog[2].payload = DebugResendLineno
  /\ rxlog[3].hasN /\ rxlog[3].n = 1 /\ rxlog[3].payload = MoveG0
  /\ \E k \in 1..(Len(outgoing) - 2) :
       /\ outgoing[k].src = 2
       /\ [i \in 0..2 |-> outgoing[k + i].s] =
            [i \in 0..2 |-> <<"Error: expected line 1 got 2", "Resend:1", "ok">>[i + 1]]
  /\ lastN = 1
  /\ rpc = "get"
  /\ unfinished_tasks = 2

\* ------------------------------------------------------------ C12
\* The line taken is rejected with a resend (the resends that the debug
\* commands inject do not reject their own line).
RejectedWithResend == Took /\ rpc' = "resend" /\ ~IsDebug(Taken.payload)

\* The line taken carries a checksum and is accepted.
AcceptedChecksummed ==
  Took /\ ~dont_answer /\ Taken.cs /\ ~RejectedWithResend

KillWritten ==
  /\ writes' = writes + 1
  /\ ContainsM112(wdata'.payload)
  /\ supportM112 /\ ~debug_drop_connection /\ ~closed

\* The echo of _kill.
KillEcho == "echo:EMERGENCY SHUTDOWN DETECTED. KILLED."

\* The step of the reader sends a line for an item written after the kill.
AnswersLineWrittenAfterKill ==
  \E i \in 1..Len(Emitted) :
    Emitted[i].src > 0 /\ afterKill[Emitted[i].src]

\* C13: with M112 supported, a write of a line containing M112 puts nothing
\* into rx and puts the emergency echo on tx behind the lines already there,
\* and no line written after it gets any output on tx, however the write
\* interleaves with the reader and the move worker.
C13_KillSilences ==
  [][ /\ KillWritten =>
           /\ incoming' = incoming /\ qsize' = qsize
           /\ outgoing' = Append(outgoing, Entry(KillEcho, 0, "_kill"))
           /\ killed'
      /\ ~AnswersLineWrittenAfterKill
    ]_vars

\* ------------------------------------------------------------ C14
\* The reader takes "!!DEBUG:drop_connection" and hands it to _debugTrigger.
DropTaken ==
  /\ Took
  /\ ReachesLineNumbering(Taken)
  /\ ~Taken.hasN
  /\ Taken.payload = DebugDropConnection

\* A call of write() is made in this step.
WriteCalled == writes' = writes + 1

\* C14: processing "!!DEBUG:drop_connection" sets the drop flag, which is never
\* cleared; from then on every write() raises SerialTimeoutException and puts
\* nothing into rx, every read() raises SerialTimeoutException, and nothing is
\* removed from tx.
C14_DropIsSticky ==
  [][ /\ DropTaken => debug_drop_connection'
      /\ debug_drop_connection =>
           /\ debug_drop_connection'
           /\ WriteCalled =>
                /\ wres' = "SerialTimeoutException" /\ wpc' = "idle"
                /\ UNCHANGED <<rxvars, outgoing, killed, afterKill>>
           /\ rres' # rres => rres' = "SerialTimeoutException"
           /\ Len(outgoing') >= Len(outgoing)
    ]_vars

\* The drop command was processed; a write and a read made since have both
\* failed, rx is empty and tx still holds the greeting.
C14_Witness ==
  /\ debug_drop_connection
  /\ rxlog = <<Plain(DebugDropConnection)>>
  /\ writes = 2 /\ wres = "SerialTimeoutException"
  /\ rres = "SerialTimeoutException"
  /\ incoming = <<>>
  /\ outgoing = Banner

\* ------------------------------------------------------------ C15
\* C15: once close() has been called, every write() returns without putting
\* anything into rx and every read() returns the empty string; neither
\* raises.
C15_ClosedChannelIsQuiet ==
  [][ closed =>
        /\ WriteCalled =>
             wres' = "returned" /\ wpc' = "idle" /\ UNCHANGED rxvars
        /\ rres' # rres => rres' = ""
    ]_vars

\* ------------------------------------------------------------ C16
\* The thread has left its loop, by return or by an exception.
ReaderEnded == rpc \in {"exited", "dead"}
MoverEnded == bpc \in {"exited", "dead"}

\* C16: after close() the reader and the move worker both come to an end,
\* whatever they were doing: there is no state after close() in which one of
\* them has not ended and neither can take another step (the steps of the two
\* workers need no step of the host, so such a state lasts for ever).
C16_WorkersEndAfterClose ==
  closed => (ReaderEnded /\ MoverEnded) \/ ENABLED (ReaderStep \/ MoverStep)

\* ------------------------------------------------------------ C17
\* The reader takes a line other than M29 while the device writes to a file.
SdLineTaken ==
  Took /\ writingToSd /\ selectedSdFile # "" /\ Taken.payload # "M29"

\* The line passes the line protocol: it is not discarded, not rejected for a
\* missing checksum, a line-number mismatch or the forced resend, and is not
\* a line-number reset.
SdAccepts(l) ==
  /\ ReachesLineNumbering(l)
  /\ ~(l.hasN /\ l.payload = "M110")
  /\ ~(l.hasN /\ l.n # lastN + 1)
  /\ ~(l.hasN /\ LineAfterChecksum(l) = ResendAtLine)

\* The line is appended to the selected file without N-prefix and checksum
\* and with a newline, answered with one ok, and not dispatched.
SdLineWritten ==
  /\ sdFiles'[selectedSdFile] =
       File(sdFiles[selectedSdFile].lines \o <<Taken.payload \o "\n">>)
  /\ EmittedTexts = <<"ok">>
  /\ rpc' # "dispatch"
  /\ UNCHANGED <<movevars, sdstate, sleepvars>>

M28Done == rpc = "dispatch" /\ rdata = WriteTestG /\ rpc' # "dispatch"
M29Done == rpc = "dispatch" /\ rdata = "M29" /\ rpc' # "dispatch"

SdPrinting == spc \in {"loop", "wait"}

\* C18: while an SD print is running, selected_file_pos stays within
\* [0, selected_file_size], whatever M23, M24, M25 and M26 S<pos> commands
\* are interleaved with the SD printer task.
C18_PosWithinFile ==
  SdPrinting => (0 <= selectedSdFilePos /\ selectedSdFilePos <= selectedSdFileSize)

\* ------------------------------------------------------------ C19
\* C19: no exception crosses the reader's worker boundary: whatever lines
\* the host writes (an N-line without a payload, M26 without an S field, M23
\* or M28 without a file name), the reader task stays alive.
C19_ReaderSurvives == rpc # "dead"

\* ------------------------------------------------------------ C20
\* The host's write waits in put() for room in rx, holding _incoming_lock.
WriteBlocked == wpc = "put" /\ incoming_lock = "write" /\ ~PutFits(wdata)

\* The reader waits for _incoming_lock at the head of _triggerResend.
ResendBlocked == rpc = "resend" /\ incoming_lock # "free"

\* C20: in no reachable state is a host write blocked waiting for rx space
\* while holding incoming_lock with the reader at the same time blocked
\* waiting for incoming_lock in trigger_resend.
C20_NoLockedBackPressure == ~(WriteBlocked /\ ResendBlocked)

\* ------------------------------------------------------------ C21
\* The reader is in the middle of its update of the position, from the read
\* to the store of "self._lastX *= 2.54", before and after the step.
ReaderUpdatesPosition ==
  rpc = "rescale" /\ rload # NoCoordinate /\ rpc' = "rescale"

\* C21: the position fields are mutated by at most one task at a time: while
\* the reader is updating last_x (G20/G21), no other task writes last_x.
C21_SingleWriter ==
  [][ReaderUpdatesPosition => lastX' = lastX]_vars

\* ------------------------------------------------------------ C22
\* The SD printer task is inside the heat-up waiter with the temperature
\* not yet within delta of the target.
SdPrinterWaitsForHeat == spc = "heatup" /\ ~WithinDelta

\* C22: while printing from SD, a file line with M109 sets the target
\* temperature but the SD printer task does not wait in the heat-up waiter
\* for the temperature to come within delta of the target.
C22_SdHeatupDoesNotBlock == ~SdPrinterWaitsForHeat

\* ------------------------------------------------------------ C23
\* The lines whose processing is complete, in order.
Processed == IF rpc = "dispatch" THEN SubSeq(rxlog, 1, Len(rxlog) - 1) ELSE rxlog

\* The processed M24 and M25 lines, by their place.
GateCommands == {i \in 1..Len(Processed) : Processed[i].payload \in {"M24", "M25"}}

\* M25 has been processed and no M24 after it.
PausedByM25 ==
  \E i \in GateCommands :
    /\ Processed[i].payload = "M25"
    /\ \A j \in GateCommands : j <= i

\* The SD printer task waits at the pause gate.
AtGate == spc = "wait"

M24Done == rpc = "dispatch" /\ rdata = "M24" /\ rpc' # "dispatch"

SdTasksAlive == (IF spc \in {"none", "dead"} THEN 0 ELSE 1) + sdEnding

\* A print is running: the registered task is before the end of its loop,
\* and the gate is set.
SdPrintRunning ==
  spc \in {"start", "loop", "wait", "heatup"} /\ sdPrintingSemaphore

\* C24: at most one SD printer task is alive at any time, and an M24
\* processed with a file selected results in a print that is running (task
\* present and gate set).
C24_SingleSdPrinter ==
  [][/\ SdTasksAlive' <= 1
     /\ (M24Done /\ selectedSdFile # "") => SdPrintRunning']_vars

====
